---- MODULE Spec2Model ----
(***************************************************************************)
(* State-machine model of the thread API server (Express + Sequelize):     *)
(* registration, login, the JWT cookie middleware and the post / comment   *)
(* handlers, with the three persisted tables Users, Posts, Commentaires.   *)
(*                                                                         *)
(* One action is one handler run from the request to its answer, the       *)
(* middleware in front of it included. The DELETE handlers are two actions *)
(* each, cut at the await between findByPk and destroy, where the handlers *)
(* of other requests run. resp holds the response being sent, with the     *)
(* request it answers; it is cleared before the next step is taken.        *)
(*                                                                         *)
(* history is no state of the server: it remembers, for the properties     *)
(* that speak of the past, whom each token was issued to and which tokens  *)
(* were presented to a logout.                                             *)
(*                                                                         *)
(* The database answers every statement in Spec; SpecFault adds the steps  *)
(* in which a statement is rejected (connection lost, server gone). Ids    *)
(* are auto-increment keys, never reissued while the tables live. Time is  *)
(* the whole seconds jsonwebtoken reads from the clock. NULL is written 0. *)
(***************************************************************************)
EXTENDS Integers, Sequences, FiniteSets, TLC

VARIABLES JWT_SECRET, users, posts, comments, nextId, issued, now, inflight, resp,
          history

vars == <<JWT_SECRET, users, posts, comments, nextId, issued, now, inflight, resp,
          history>>

db == <<users, posts, comments>>

----------------------------------------------------------------------------
(* Bounds of the model *)

MaxUsers == 2
MaxPosts == 2
MaxComments == 1
MaxTokens == 2
MaxInflight == 1
MaxOverlap == 2
MaxSkew == 1

(* expiresIn: "1h", in the seconds jsonwebtoken counts in *)
ExpiresIn == 3600

(* The instants (epoch seconds, as Math.floor(Date.now() / 1000)) the clock visits *)
TimePoints == {0, ExpiresIn - 1} \cup {ExpiresIn + k : k \in 0..MaxSkew}

----------------------------------------------------------------------------
(* Strings that the code transforms are sequences of characters *)

UpperCase == <<"A","B","C","D","E","F","G","H","I","J","K","L","M",
               "N","O","P","Q","R","S","T","U","V","W","X","Y","Z">>
LowerCase == <<"a","b","c","d","e","f","g","h","i","j","k","l","m",
               "n","o","p","q","r","s","t","u","v","w","x","y","z">>
WhiteSpace == {" ", "\t", "\n", "\r"}

toLowerCase(s) ==
  [i \in 1..Len(s) |->
     IF \E k \in 1..Len(UpperCase) : UpperCase[k] = s[i]
     THEN LowerCase[CHOOSE k \in 1..Len(UpperCase) : UpperCase[k] = s[i]]
     ELSE s[i]]

trim(s) ==
  LET keep == {i \in 1..Len(s) : s[i] \notin WhiteSpace}
  IN  IF keep = {} THEN <<>>
      ELSE LET lo == CHOOSE i \in keep : \A j \in keep : i <= j
               hi == CHOOSE i \in keep : \A j \in keep : i >= j
           IN  SubSeq(s, lo, hi)

(* emailNorm = email.trim().toLowerCase() *)
Normalize(email) == toLowerCase(trim(email))

(* the (!x) test of a string field: undefined and "" are both falsy *)
Missing(s) == Len(s) = 0

----------------------------------------------------------------------------
(* Request inputs *)

BillyEmail == <<"b","i","l","l","y","@","m","a","i","l",".","c","o","m">>
BillyEmailRaw == <<" ","B","i","l","l","y","@","M","a","i","l",".","c","o","m">>
AEmail == <<"a","@","x">>
AEmailRaw == <<"A","@","X"," ">>
BEmail == <<"b","@","x">>

Emails == {<<>>, BillyEmail, BillyEmailRaw, AEmail, AEmailRaw}
Passwords == {"", "billy123", "pw1"}
Salts == {"s1"}

(* bodies of POST /register: a field left out, two passwords that differ,
   and complete bodies for every email *)
RegisterBody(username, email, password, verifiedPassword) ==
  [username |-> username, email |-> email, password |-> password,
   verifiedPassword |-> verifiedPassword]
RegisterBodies ==
  {RegisterBody("", AEmail, "pw1", "pw1"), RegisterBody("alice", AEmail, "pw1", ""),
   RegisterBody("alice", AEmail, "pw1", "billy123")}
  \cup {RegisterBody("alice", e, "pw1", "pw1") : e \in Emails}

UserIds == 1..MaxUsers
PostIds == 1..MaxPosts
CommentIds == 1..MaxComments

----------------------------------------------------------------------------
(* bcrypt *)

hashSync(clear, salt) == [salt |-> salt, digest |-> <<salt, clear>>]
compareSync(clear, hashed) == hashed = hashSync(clear, hashed.salt)

----------------------------------------------------------------------------
(* jsonwebtoken: a token is its payload and the key that signed it *)

Secret == "secret"
Undefined == "undefined"

NoCookie == [present |-> FALSE, wellFormed |-> FALSE, key |-> "", userId |-> 0, iat |-> 0, exp |-> 0]
Malformed == [present |-> TRUE, wellFormed |-> FALSE, key |-> "", userId |-> 0, iat |-> 0, exp |-> 0]

sign(userId, key, t) ==
  [present |-> TRUE, wellFormed |-> TRUE, key |-> key, userId |-> userId,
   iat |-> t, exp |-> t + ExpiresIn]

(* tokens an outsider can make: signed with a key that is not the server's,
   or not signed at all (alg "none", an empty signature part) *)
Forged == {sign(1, "attacker", now)}
None == "none"
Unsigned == {sign(1, None, now)}

Cookies == {NoCookie, Malformed} \cup Forged \cup Unsigned \cup issued

(* jwt.verify(token, JWT_SECRET) returns the payload, or throws *)
verifyAnyKey(token, key, t) ==
  /\ key # Undefined
  /\ token.wellFormed
  /\ ~(t >= token.exp)
verifyLate(token, key, t) ==
  /\ key # Undefined
  /\ token.wellFormed
  /\ token.key = key
  /\ ~(t > token.exp)
(* A signed token with no key throws ("secret or public key must be
   provided"), an unsigned token with a key throws ("jwt signature is
   required"). An unsigned token with no key is verified by jsonwebtoken up to
   8.5.1, which then takes the algorithm to be "none"; the package version is
   not pinned in the sources, and the model takes this outcome, the one under
   which the middleware's own test of JWT_SECRET decides. *)
verifyOK(token, key, t) ==
  /\ token.wellFormed
  /\ IF token.key = None THEN key = Undefined
                         ELSE key # Undefined /\ token.key = key
  /\ ~(t >= token.exp)

----------------------------------------------------------------------------
(* Persistence layer (Sequelize models over MySQL) *)

Exists(table, id) == \E r \in table : r.id = id
findByPk(table, id) == CHOOSE r \in table : r.id = id

(* User.findOne({ where: { email } }) *)
HasEmail(email) == \E u \in users : u.email = email
findOne(email) == CHOOSE u \in users : u.email = email

(* a User instance carries the attributes the model defines, and isAdmin is
   not one of them: reading it gives undefined, which is falsy *)
isAdmin(user) == IF "isAdmin" \in DOMAIN user THEN user.isAdmin ELSE FALSE

(* the seed of loadSequelize: user Billy and his one post *)
Billy(salt) == [id |-> 1, username |-> "Billy", email |-> BillyEmail,
                password |-> hashSync("billy123", salt)]
SeedPost == [id |-> 1, UserId |-> 1]

(* instance.destroy(): DELETE ... WHERE id = ... *)
destroy(table, id) == {r \in table : r.id # id}

(* Commentaire.belongsTo(Post): deleting a post sets PostId to NULL (0) *)
SetNull(table, postId) ==
  {IF c.PostId = postId THEN [c EXCEPT !.PostId = 0] ELSE c : c \in table}

----------------------------------------------------------------------------
(* The authentication middleware *)

Deny(message) == [next |-> FALSE, message |-> message, userId |-> 0]
Allow(userId) == [next |-> TRUE, message |-> "", userId |-> userId]

isLoggedInJWTRevoking(cookie) ==
  IF ~cookie.present THEN Deny("Accès refusé : aucun token trouvé")
  ELSE IF ~verifyOK(cookie, JWT_SECRET, now) \/ cookie \in history.loggedOut
       THEN Deny("Accès refusé : token invalide ou expiré")
  ELSE IF ~Exists(users, cookie.userId)
       THEN Deny("Accès refusé : utilisateur non trouvé")
  ELSE IF JWT_SECRET = Undefined
       THEN Deny("Accès refusé : token invalide ou expiré")
  ELSE Allow(cookie.userId)
isLoggedInJWTUnchecked(cookie) ==
  IF ~cookie.present THEN Deny("Accès refusé : aucun token trouvé")
  ELSE IF ~verifyOK(cookie, JWT_SECRET, now)
       THEN Deny("Accès refusé : token invalide ou expiré")
  ELSE IF ~Exists(users, cookie.userId)
       THEN Deny("Accès refusé : utilisateur non trouvé")
  ELSE Allow(cookie.userId)
isLoggedInJWT(cookie) ==
  IF ~cookie.present THEN Deny("Accès refusé : aucun token trouvé")
  ELSE IF ~verifyOK(cookie, JWT_SECRET, now)
       THEN Deny("Accès refusé : token invalide ou expiré")
  ELSE IF ~Exists(users, cookie.userId)
       THEN Deny("Accès refusé : utilisateur non trouvé")
  ELSE IF JWT_SECRET = Undefined
       THEN Deny("Accès refusé : token invalide ou expiré")
  ELSE Allow(cookie.userId)

----------------------------------------------------------------------------
(* Requests and responses *)

Req0 == [cookie |-> NoCookie, id |-> 0, username |-> "", email |-> <<>>,
         password |-> "", verifiedPassword |-> "", bodyUserId |-> 0, postId |-> 0]

NoSet == [op |-> "none", token |-> NoCookie]
SetToken(token) == [op |-> "set", token |-> token]
ClearToken == [op |-> "clear", token |-> NoCookie]

Body(shape, text, id, rows) == [shape |-> shape, text |-> text, id |-> id, rows |-> rows]
Message(text) == Body("message", text, 0, {})
Error(text) == Body("error", text, 0, {})
Data(shape, rows) == Body(shape, "", 0, rows)

(* a response sent by the middleware, which reads the cookie and nothing else
   of the request *)
Unauthorized(route, req, a, changed) ==
  [route |-> route, req |-> [Req0 EXCEPT !.cookie = req.cookie], status |-> 401, body |-> Message(a.message),
   setCookie |-> NoSet, ran |-> FALSE, userId |-> 0, authAt |-> now, changed |-> changed,
   fault |-> "none"]

(* a response sent by a route handler *)
Reply(route, req, userId, authAt, status, body, setCookie, changed) ==
  [route |-> route, req |-> req, status |-> status, body |-> body,
   setCookie |-> setCookie, ran |-> TRUE, userId |-> userId, authAt |-> authAt,
   changed |-> changed, fault |-> "none"]

NoResponse ==
  [route |-> "none", req |-> Req0, status |-> 0, body |-> Message(""),
   setCookie |-> NoSet, ran |-> FALSE, userId |-> 0, authAt |-> 0, changed |-> FALSE,
   fault |-> "none"]

PublicRoutes == {"POST /register", "POST /login"}
ProtectedRoutes == {"GET /posts", "GET /post/:id", "POST /post",
                    "POST /posts/:postId/commentaire", "GET /user/:id", "GET /users",
                    "DELETE /posts/:postId", "DELETE /comments/:commentId", "GET /logout"}

----------------------------------------------------------------------------
NoHistory == [issuedTo |-> {}, loggedOut |-> {}]

Init ==
  /\ JWT_SECRET = Secret
  /\ \E salt \in Salts : users = {Billy(salt)}
  /\ posts = {SeedPost}
  /\ comments = {}
  /\ nextId = [user |-> 2, post |-> 2, comment |-> 1]
  /\ issued = {}
  /\ now = 0
  /\ inflight = {}
  /\ resp = NoResponse
  /\ history = NoHistory

(* the server started with JWT_SECRET missing from the environment as well *)
InitAnySecret ==
  /\ JWT_SECRET \in {Secret, Undefined}
  /\ \E salt \in Salts : users = {Billy(salt)}
  /\ posts = {SeedPost}
  /\ comments = {}
  /\ nextId = [user |-> 2, post |-> 2, comment |-> 1]
  /\ issued = {}
  /\ now = 0
  /\ inflight = {}
  /\ resp = NoResponse
  /\ history = NoHistory

(* POST /register *)
UniqueOff(emailNorm) == FALSE
UniqueViolation(emailNorm) == HasEmail(emailNorm)

Register(username, email, password, verifiedPassword, salt) ==
  LET req == [Req0 EXCEPT !.username = username, !.email = email,
                          !.password = password, !.verifiedPassword = verifiedPassword]
      emailNorm == Normalize(email)
      R(status, body) == Reply("POST /register", req, 0, now, status, body, NoSet, db' # db)
  IN  /\ UNCHANGED <<JWT_SECRET, history, posts, comments, issued, now, inflight>>
      /\ IF Missing(email) \/ password = "" \/ verifiedPassword = "" \/ username = ""
         THEN /\ UNCHANGED <<users, nextId>>
              /\ resp' = R(400, Message("Les champs email, username, password et verifiedPassword sont requis"))
         ELSE IF password # verifiedPassword
         THEN /\ UNCHANGED <<users, nextId>>
              /\ resp' = R(400, Message("Les mots de passe ne correspondent pas"))
         ELSE IF UniqueViolation(emailNorm)
         THEN /\ UNCHANGED <<users, nextId>>
              /\ resp' = R(409, Message("Cet email est déjà utilisé"))
         ELSE /\ nextId.user <= MaxUsers
              /\ users' = users \cup {[id |-> nextId.user, username |-> username,
                                       email |-> emailNorm,
                                       password |-> hashSync(password, salt)]}
              /\ nextId' = [nextId EXCEPT !.user = @ + 1]
              /\ resp' = R(201, Body("message", "Utilisateur créé avec succès", nextId.user, {}))

(* POST /login *)
LoginEmailRaw(email) == email
LoginEmail(email) == Normalize(email)

(* the checks of the handler, up to the signing of the token *)
LoginCheck(email, password) ==
  IF Missing(email) \/ password = ""
  THEN [status |-> 400, body |-> Message("Email et mot de passe requis")]
  ELSE IF ~HasEmail(LoginEmail(email))
  THEN [status |-> 401, body |-> Message("Email incorrect")]
  ELSE IF ~compareSync(password, findOne(LoginEmail(email)).password)
  THEN [status |-> 401, body |-> Message("Mot de passe incorrect")]
  ELSE [status |-> 200, body |-> Message("Connexion réussie")]

Login(email, password) ==
  LET req == [Req0 EXCEPT !.email = email, !.password = password]
      check == LoginCheck(email, password)
      R(status, body, set) == Reply("POST /login", req, 0, now, status, body, set, db' # db)
  IN  /\ UNCHANGED <<JWT_SECRET, users, posts, comments, nextId, now, inflight>>
      /\ IF check.status # 200
         THEN /\ UNCHANGED <<issued, history>>
              /\ resp' = R(check.status, check.body, NoSet)
         ELSE IF JWT_SECRET = Undefined
         THEN (* jwt.sign throws: secretOrPrivateKey must have a value *)
              /\ UNCHANGED <<issued, history>>
              /\ resp' = R(500, Body("message+error", "Erreur lors de la connexion", 0, {}), NoSet)
         ELSE LET user == findOne(LoginEmail(email))
                  token == sign(user.id, JWT_SECRET, now)
              IN  /\ token \in issued \/ Cardinality(issued) < MaxTokens
                  /\ issued' = issued \cup {token}
                  /\ history' = [history EXCEPT
                                   !.issuedTo = @ \cup {[token |-> token, email |-> user.email]}]
                  /\ resp' = R(check.status, check.body, SetToken(token))

(* GET /posts *)
GetPosts(cookie) ==
  LET route == "GET /posts"
      req == [Req0 EXCEPT !.cookie = cookie]
      a == isLoggedInJWT(cookie)
  IN  /\ UNCHANGED <<JWT_SECRET, history, users, posts, comments, nextId, issued, now, inflight>>
      /\ resp' = IF ~a.next THEN Unauthorized(route, req, a, db' # db)
                 ELSE Reply(route, req, a.userId, now, 200, Data("posts", posts), NoSet, db' # db)

(* GET /post/:id *)
CanReadAny(post, userId) == TRUE
CanRead(post, userId) == post.UserId = userId

GetPost(cookie, id) ==
  LET route == "GET /post/:id"
      req == [Req0 EXCEPT !.cookie = cookie, !.id = id]
      a == isLoggedInJWT(cookie)
  IN  /\ UNCHANGED <<JWT_SECRET, history, users, posts, comments, nextId, issued, now, inflight>>
      /\ resp' = IF ~a.next THEN Unauthorized(route, req, a, db' # db)
                 ELSE IF ~Exists(posts, id) \/ ~CanRead(findByPk(posts, id), a.userId)
                 THEN Reply(route, req, a.userId, now, 404,
                            Error("Post non trouvé ou accès interdit"), NoSet, db' # db)
                 ELSE Reply(route, req, a.userId, now, 200,
                            Data("post", {findByPk(posts, id)}), NoSet, db' # db)

(* POST /post: the body's title and content are kept, nothing else of it is read *)
OwnerFromBody(userId, bodyUserId) == IF bodyUserId # 0 THEN bodyUserId ELSE userId
OwnerOf(userId, bodyUserId) == userId

CreatePost(cookie, bodyUserId) ==
  LET route == "POST /post"
      req == [Req0 EXCEPT !.cookie = cookie, !.bodyUserId = bodyUserId]
      a == isLoggedInJWT(cookie)
  IN  /\ UNCHANGED <<JWT_SECRET, history, users, comments, issued, now, inflight>>
      /\ IF ~a.next
         THEN /\ UNCHANGED <<posts, nextId>>
              /\ resp' = Unauthorized(route, req, a, db' # db)
         ELSE LET newPost == [id |-> nextId.post, UserId |-> OwnerOf(a.userId, bodyUserId)]
              IN  /\ nextId.post <= MaxPosts
                  /\ posts' = posts \cup {newPost}
                  /\ nextId' = [nextId EXCEPT !.post = @ + 1]
                  /\ resp' = Reply(route, req, a.userId, now, 200,
                                   Data("post", {newPost}), NoSet, db' # db)

(* POST /posts/:postId/commentaire: postId is read from the body *)
CreateComment(cookie, postId, bodyUserId) ==
  LET route == "POST /posts/:postId/commentaire"
      req == [Req0 EXCEPT !.cookie = cookie, !.postId = postId, !.bodyUserId = bodyUserId]
      a == isLoggedInJWT(cookie)
  IN  /\ UNCHANGED <<JWT_SECRET, history, users, posts, issued, now, inflight>>
      /\ IF ~a.next
         THEN /\ UNCHANGED <<comments, nextId>>
              /\ resp' = Unauthorized(route, req, a, db' # db)
         ELSE IF postId = 0
         THEN /\ UNCHANGED <<comments, nextId>>
              /\ resp' = Reply(route, req, a.userId, now, 400,
                               Error("Le champ postId est obligatoire"), NoSet, db' # db)
         ELSE IF ~Exists(posts, postId)
         THEN (* the foreign key on PostId rejects the insert *)
              /\ UNCHANGED <<comments, nextId>>
              /\ resp' = Reply(route, req, a.userId, now, 500,
                               Error("Erreur serveur lors de la création du commentaire"),
                               NoSet, db' # db)
         ELSE LET newCommentaire == [id |-> nextId.comment,
                                     UserId |-> OwnerOf(a.userId, bodyUserId),
                                     PostId |-> postId]
              IN  /\ nextId.comment <= MaxComments
                  /\ comments' = comments \cup {newCommentaire}
                  /\ nextId' = [nextId EXCEPT !.comment = @ + 1]
                  /\ resp' = Reply(route, req, a.userId, now, 200,
                                   Data("commentaire", {newCommentaire}), NoSet, db' # db)

(* GET /user/:id *)
GetUser(cookie, id) ==
  LET route == "GET /user/:id"
      req == [Req0 EXCEPT !.cookie = cookie, !.id = id]
      a == isLoggedInJWT(cookie)
  IN  /\ UNCHANGED <<JWT_SECRET, history, users, posts, comments, nextId, issued, now, inflight>>
      /\ resp' = IF ~a.next THEN Unauthorized(route, req, a, db' # db)
                 ELSE Reply(route, req, a.userId, now, 200,
                            Data("user", {u \in users : u.id = id}), NoSet, db' # db)

(* GET /users *)
GetUsers(cookie) ==
  LET route == "GET /users"
      req == [Req0 EXCEPT !.cookie = cookie]
      a == isLoggedInJWT(cookie)
  IN  /\ UNCHANGED <<JWT_SECRET, history, users, posts, comments, nextId, issued, now, inflight>>
      /\ resp' = IF ~a.next THEN Unauthorized(route, req, a, db' # db)
                 ELSE Reply(route, req, a.userId, now, 200, Data("users", users), NoSet, db' # db)

----------------------------------------------------------------------------
(* The DELETE handlers await twice: findByPk, then destroy. Other requests
   are served between the two, so each handler is two steps and a request
   that passed the checks waits in inflight for its destroy. *)

MayDeleteAny(record, userId, user) == TRUE
MayDeleteAdminOnly(record, userId, user) == isAdmin(user)
MayDelete(record, userId, user) == ~(record.UserId # userId /\ ~isAdmin(user))

FreeRid == CHOOSE n \in 1..(Cardinality(inflight) + 1) : \A r \in inflight : r.rid # n

Pending(route, req, userId) ==
  [rid |-> FreeRid, route |-> route, req |-> req, userId |-> userId, authAt |-> now]

(* DELETE /posts/:postId, up to the checks; room is the number of deletes
   the specification lets wait for their destroy at a time *)
DeletePostLookup(cookie, postId, room) ==
  LET route == "DELETE /posts/:postId"
      req == [Req0 EXCEPT !.cookie = cookie, !.id = postId]
      a == isLoggedInJWT(cookie)
  IN  /\ UNCHANGED <<JWT_SECRET, history, users, posts, comments, nextId, issued, now>>
      /\ IF ~a.next
         THEN /\ UNCHANGED inflight
              /\ resp' = Unauthorized(route, req, a, db' # db)
         ELSE IF ~Exists(posts, postId)
         THEN /\ UNCHANGED inflight
              /\ resp' = Reply(route, req, a.userId, now, 404,
                               Error("Post non trouvé"), NoSet, db' # db)
         ELSE IF ~MayDelete(findByPk(posts, postId), a.userId, findByPk(users, a.userId))
         THEN /\ UNCHANGED inflight
              /\ resp' = Reply(route, req, a.userId, now, 403,
                               Error("Accès refusé : non auteur ni admin"), NoSet, db' # db)
         ELSE /\ Cardinality(inflight) < room
              /\ inflight' = inflight \cup {Pending(route, req, a.userId)}
              /\ UNCHANGED resp

DeletePostFind(cookie, postId) == DeletePostLookup(cookie, postId, MaxInflight)

(* DELETE /posts/:postId, post.destroy() and the answer *)
DeletePostDestroy(r) ==
  /\ r.route = "DELETE /posts/:postId"
  /\ posts' = destroy(posts, r.req.id)
  /\ comments' = SetNull(comments, r.req.id)
  /\ inflight' = inflight \ {r}
  /\ UNCHANGED <<JWT_SECRET, history, users, nextId, issued, now>>
  /\ resp' = Reply(r.route, r.req, r.userId, r.authAt, 200,
                   Message("Post supprimé avec succès"), NoSet, db' # db)

(* DELETE /comments/:commentId, up to the checks *)
DeleteCommentLookup(cookie, commentId, room) ==
  LET route == "DELETE /comments/:commentId"
      req == [Req0 EXCEPT !.cookie = cookie, !.id = commentId]
      a == isLoggedInJWT(cookie)
  IN  /\ UNCHANGED <<JWT_SECRET, history, users, posts, comments, nextId, issued, now>>
      /\ IF ~a.next
         THEN /\ UNCHANGED inflight
              /\ resp' = Unauthorized(route, req, a, db' # db)
         ELSE IF ~Exists(comments, commentId)
         THEN /\ UNCHANGED inflight
              /\ resp' = Reply(route, req, a.userId, now, 404,
                               Error("Commentaire non trouvé"), NoSet, db' # db)
         ELSE IF ~MayDelete(findByPk(comments, commentId), a.userId, findByPk(users, a.userId))
         THEN /\ UNCHANGED inflight
              /\ resp' = Reply(route, req, a.userId, now, 403,
                               Error("Accès refusé : non auteur ni admin"), NoSet, db' # db)
         ELSE /\ Cardinality(inflight) < room
              /\ inflight' = inflight \cup {Pending(route, req, a.userId)}
              /\ UNCHANGED resp

DeleteCommentFind(cookie, commentId) == DeleteCommentLookup(cookie, commentId, MaxInflight)

(* DELETE /comments/:commentId, commentaire.destroy() and the answer *)
DeleteCommentDestroy(r) ==
  /\ r.route = "DELETE /comments/:commentId"
  /\ comments' = destroy(comments, r.req.id)
  /\ inflight' = inflight \ {r}
  /\ UNCHANGED <<JWT_SECRET, history, users, posts, nextId, issued, now>>
  /\ resp' = Reply(r.route, r.req, r.userId, r.authAt, 200,
                   Message("Commentaire supprimé avec succès"), NoSet, db' # db)

LogoutPublic(cookie) ==
  /\ UNCHANGED <<JWT_SECRET, history, users, posts, comments, nextId, issued, now, inflight>>
  /\ resp' = Reply("GET /logout", [Req0 EXCEPT !.cookie = cookie], 0, now, 200,
                   Message("Déconnexion réussie"), ClearToken, db' # db)

(* GET /logout, declared after app.use(isLoggedInJWT(...)) *)
LogoutAnswer(cookie) ==
  LET route == "GET /logout"
      req == [Req0 EXCEPT !.cookie = cookie]
      a == isLoggedInJWT(cookie)
  IN  /\ UNCHANGED <<JWT_SECRET, users, posts, comments, nextId, issued, now, inflight>>
      /\ resp' = IF ~a.next THEN Unauthorized(route, req, a, db' # db)
                 ELSE Reply(route, req, a.userId, now, 200,
                            Message("Déconnexion réussie"), ClearToken, db' # db)

Logout(cookie) == LogoutAnswer(cookie) /\ UNCHANGED history

(* time passes *)
Advance(t) ==
  /\ t > now
  /\ now' = t
  /\ UNCHANGED <<JWT_SECRET, history, users, posts, comments, nextId, issued, inflight, resp>>

(* res.json(...): the response leaves the server *)
Sent ==
  /\ resp # NoResponse
  /\ resp' = NoResponse
  /\ UNCHANGED <<JWT_SECRET, history, users, posts, comments, nextId, issued, now, inflight>>

(* resp is the response being sent; the next step of any handler follows it *)
Ready == resp = NoResponse

Next ==
  \/ \E b \in RegisterBodies, salt \in Salts :
       Ready /\ Register(b.username, b.email, b.password, b.verifiedPassword, salt)
  \/ \E email \in Emails, password \in Passwords : Ready /\ Login(email, password)
  \/ \E cookie \in Cookies : Ready /\ GetPosts(cookie)
  \/ \E cookie \in Cookies, id \in PostIds : Ready /\ GetPost(cookie, id)
  \/ \E cookie \in Cookies, bodyUserId \in {0} \cup UserIds :
       Ready /\ CreatePost(cookie, bodyUserId)
  \/ \E cookie \in Cookies, postId \in {0} \cup PostIds, bodyUserId \in {0} \cup UserIds :
       Ready /\ CreateComment(cookie, postId, bodyUserId)
  \/ \E cookie \in Cookies, id \in UserIds : Ready /\ GetUser(cookie, id)
  \/ \E cookie \in Cookies : Ready /\ GetUsers(cookie)
  \/ \E cookie \in Cookies, postId \in PostIds : Ready /\ DeletePostFind(cookie, postId)
  \/ \E r \in inflight : Ready /\ DeletePostDestroy(r)
  \/ \E cookie \in Cookies, commentId \in CommentIds :
       Ready /\ DeleteCommentFind(cookie, commentId)
  \/ \E r \in inflight : Ready /\ DeleteCommentDestroy(r)
  \/ \E cookie \in Cookies : Ready /\ Logout(cookie)
  \/ \E t \in TimePoints : Ready /\ Advance(t)
  \/ Sent

Spec == Init /\ [][Next]_vars

(* The process starts again: main() calls loadSequelize(), whose
   sync({ force: true }) drops and recreates the tables before the seed.
   Requests in flight die with the process; the secret comes from the same
   environment, and the cookies the clients hold are theirs to keep. *)
Restart ==
  /\ \E salt \in Salts : users' = {Billy(salt)}
  /\ posts' = {SeedPost}
  /\ comments' = {}
  /\ nextId' = [user |-> 2, post |-> 2, comment |-> 1]
  /\ inflight' = {}
  /\ resp' = NoResponse
  /\ UNCHANGED <<JWT_SECRET, history, issued, now>>

NextRestart ==
  \/ Next
  \/ Ready /\ Restart

SpecRestart == Init /\ [][NextRestart]_vars

(* The server with or without JWT_SECRET in its environment *)
SpecAnySecret == InitAnySecret /\ [][Next]_vars

----------------------------------------------------------------------------
(* The requests that change what the server holds: a registration, the
   logins of the two users, and posts, comments and deletes asked with a
   token the server issued. The read handlers and the refused requests
   change nothing but the response, so every state of the tables, the
   tokens, the clock and the deletes in flight that Next reaches is reached
   by these steps too. The specifications below add to them the steps their
   subject is about. *)
Credentials == {<<BillyEmail, "billy123">>, <<AEmail, "pw1">>}

Writes ==
  \/ \E salt \in Salts : Ready /\ Register("alice", AEmail, "pw1", "pw1", salt)
  \/ \E c \in Credentials : Ready /\ Login(c[1], c[2])
  \/ \E cookie \in issued : Ready /\ CreatePost(cookie, 0)
  \/ \E cookie \in issued, postId \in PostIds : Ready /\ CreateComment(cookie, postId, 0)
  \/ \E t \in TimePoints : Ready /\ Advance(t)
  \/ Sent

Deletes ==
  \/ \E cookie \in issued, postId \in PostIds : Ready /\ DeletePostFind(cookie, postId)
  \/ \E r \in inflight : Ready /\ DeletePostDestroy(r)
  \/ \E cookie \in issued, commentId \in CommentIds :
       Ready /\ DeleteCommentFind(cookie, commentId)
  \/ \E r \in inflight : Ready /\ DeleteCommentDestroy(r)

(* The read handlers, asked with a token the server issued *)
Reads ==
  \/ \E cookie \in issued : Ready /\ GetPosts(cookie)
  \/ \E cookie \in issued, id \in PostIds : Ready /\ GetPost(cookie, id)
  \/ \E cookie \in issued, id \in UserIds : Ready /\ GetUser(cookie, id)
  \/ \E cookie \in issued : Ready /\ GetUsers(cookie)

(* GET /logout as Logout serves it, with history remembering the token of
   the cookie the answer clears *)
LogoutNoted(cookie) ==
  /\ LogoutAnswer(cookie)
  /\ history' = IF resp'.status = 200
                THEN [history EXCEPT !.loggedOut = @ \cup {cookie}]
                ELSE history

(* What becomes of a token after its logout *)
NextLogout ==
  \/ Writes
  \/ Deletes
  \/ Reads
  \/ \E cookie \in Cookies : Ready /\ LogoutNoted(cookie)

SpecLogout == Init /\ [][NextLogout]_vars

(* Restarts with a second person registering: after a start the ids begin
   again at 2 for whoever registers first *)
NextReissue ==
  \/ Writes
  \/ Deletes
  \/ Reads
  \/ \E salt \in Salts : Ready /\ Register("bob", BEmail, "pw1", "pw1", salt)
  \/ Ready /\ Restart

SpecReissue == Init /\ [][NextReissue]_vars

(* Deletes that overlap: a second DELETE passes its checks while the first
   waits for its destroy *)
OverlappingDeletes ==
  \/ \E cookie \in issued, postId \in PostIds :
       Ready /\ DeletePostLookup(cookie, postId, MaxOverlap)
  \/ \E r \in inflight : Ready /\ DeletePostDestroy(r)
  \/ \E cookie \in issued, commentId \in CommentIds :
       Ready /\ DeleteCommentLookup(cookie, commentId, MaxOverlap)
  \/ \E r \in inflight : Ready /\ DeleteCommentDestroy(r)

NextOverlap ==
  \/ Writes
  \/ OverlappingDeletes

SpecOverlap == Init /\ [][NextOverlap]_vars

----------------------------------------------------------------------------
(* Persistence faults: a Sequelize call rejects. resp.fault tells where the
   rejected call was made: in the middleware or in the route handler. *)

(* what the catch block of each handler answers *)
Caught(route) ==
  CASE route = "POST /register" -> Message("Erreur lors de la création de l'utilisateur")
    [] route = "POST /login" -> Body("message+error", "Erreur lors de la connexion", 0, {})
    [] route = "GET /posts" -> Message("Erreur serveur lors de la récupération des posts")
    [] route = "GET /post/:id" -> Error("Erreur serveur lors de la récupération du post")
    [] route = "POST /post" -> Error("Erreur serveur lors de la création du post")
    [] route = "POST /posts/:postId/commentaire" ->
         Error("Erreur serveur lors de la création du commentaire")
    [] route = "DELETE /posts/:postId" -> Error("Erreur serveur lors de la suppression du post")
    [] route = "DELETE /comments/:commentId" ->
         Error("Erreur serveur lors de la suppression du commentaire")

(* GET /user/:id and GET /users await the query outside any try block. The
   rejection of an async handler is not seen by Express 4, which sends
   nothing (status 0 here); Express 5 hands it to the default error handler,
   which answers 500 with the status text or, outside production, the stack.
   The Express version is not pinned in the sources. *)
Uncaught ==
  {[status |-> 0, body |-> Message("")],
   [status |-> 500, body |-> Body("html", "Internal Server Error", 0, {})],
   [status |-> 500, body |-> Body("stack", "Internal Server Error", 0, {})]}

NoTryRoutes == {"GET /user/:id", "GET /users"}
QueryRoutes == ProtectedRoutes \ {"GET /logout"}

(* User.create rejects with an error that is not the unique constraint *)
RegisterFault(username, email, password, verifiedPassword) ==
  LET route == "POST /register"
      req == [Req0 EXCEPT !.username = username, !.email = email,
                          !.password = password, !.verifiedPassword = verifiedPassword]
  IN  /\ ~(Missing(email) \/ password = "" \/ verifiedPassword = "" \/ username = "")
      /\ password = verifiedPassword
      /\ UNCHANGED <<JWT_SECRET, history, users, posts, comments, nextId, issued, now, inflight>>
      /\ resp' = [Reply(route, req, 0, now, 500, Caught(route), NoSet, FALSE)
                    EXCEPT !.fault = "handler"]

(* User.findOne rejects *)
LoginFault(email, password) ==
  LET route == "POST /login"
      req == [Req0 EXCEPT !.email = email, !.password = password]
  IN  /\ ~(Missing(email) \/ password = "")
      /\ UNCHANGED <<JWT_SECRET, history, users, posts, comments, nextId, issued, now, inflight>>
      /\ resp' = [Reply(route, req, 0, now, 500, Caught(route), NoSet, FALSE)
                    EXCEPT !.fault = "handler"]

(* User.findByPk rejects in the middleware, after the token was verified: the
   catch that serves the verification answers 401 *)
MiddlewareFault(route, cookie) ==
  LET req == [Req0 EXCEPT !.cookie = cookie]
  IN  /\ cookie.present
      /\ verifyOK(cookie, JWT_SECRET, now)
      /\ UNCHANGED <<JWT_SECRET, history, users, posts, comments, nextId, issued, now, inflight>>
      /\ resp' = [Unauthorized(route, req, Deny("Accès refusé : token invalide ou expiré"), FALSE)
                    EXCEPT !.fault = "middleware"]

(* the first query of a handler rejects, the middleware having let the
   request through (the comment handler reaches its query when the body has
   a postId) *)
HandlerFault(route, cookie, outcome) ==
  LET req == [Req0 EXCEPT !.cookie = cookie,
                          !.postId = IF route = "POST /posts/:postId/commentaire" THEN 1 ELSE 0]
      a == isLoggedInJWT(cookie)
      R(status, body) == [Reply(route, req, a.userId, now, status, body, NoSet, FALSE)
                            EXCEPT !.fault = "handler"]
  IN  /\ a.next
      /\ UNCHANGED <<JWT_SECRET, history, users, posts, comments, nextId, issued, now, inflight>>
      /\ resp' = IF route \in NoTryRoutes THEN R(outcome.status, outcome.body)
                 ELSE R(500, Caught(route))

(* destroy() rejects for a request that passed the checks *)
DestroyFault(r) ==
  /\ inflight' = inflight \ {r}
  /\ UNCHANGED <<JWT_SECRET, history, users, posts, comments, nextId, issued, now>>
  /\ resp' = [Reply(r.route, r.req, r.userId, r.authAt, 500, Caught(r.route), NoSet, FALSE)
                EXCEPT !.fault = "handler"]

NextFault ==
  \/ Writes
  \/ Deletes
  \/ \E b \in RegisterBodies :
       Ready /\ RegisterFault(b.username, b.email, b.password, b.verifiedPassword)
  \/ \E email \in Emails, password \in Passwords : Ready /\ LoginFault(email, password)
  \/ \E route \in ProtectedRoutes, cookie \in Cookies : Ready /\ MiddlewareFault(route, cookie)
  \/ \E route \in QueryRoutes, cookie \in Cookies, outcome \in Uncaught :
       Ready /\ HandlerFault(route, cookie, outcome)
  \/ \E r \in inflight : Ready /\ DestroyFault(r)

SpecFault == Init /\ [][NextFault]_vars

----------------------------------------------------------------------------
(* What the claims speak of *)

Genuine(cookie) == cookie.present /\ cookie.wellFormed /\ cookie.key = Secret
Expired(cookie, t) == t >= cookie.exp
UserStored(id) == \E u \in users : u.id = id

(* no cookie, a token that fails verification, or a token whose user is gone *)
Unauthenticated(cookie, t) ==
  \/ ~cookie.present
  \/ ~Genuine(cookie)
  \/ Expired(cookie, t)
  \/ ~UserStored(cookie.userId)

(* C1: on every route but POST /register and POST /login, a request with no
   token cookie, with a token that fails verification, or with a verified
   token whose userId matches no stored User is answered 401, its handler
   does not run and Users, Posts and Comments are left as they were; a
   handler runs only with req.userId set to the id of an existing User. *)
C1_AuthGate ==
  /\ resp.route \in ProtectedRoutes =>
       /\ Unauthenticated(resp.req.cookie, resp.authAt) =>
            resp.status = 401 /\ ~resp.ran /\ ~resp.changed
       /\ resp.ran =>
            /\ ~Unauthenticated(resp.req.cookie, resp.authAt)
            /\ resp.userId = resp.req.cookie.userId
            /\ UserStored(resp.userId)
  /\ \A r \in inflight :
       /\ ~Unauthenticated(r.req.cookie, r.authAt)
       /\ r.userId = r.req.cookie.userId

(* a token the server signed, not expired, whose user is no longer stored *)
C1_Witness ==
  /\ resp.route \in ProtectedRoutes
  /\ resp.status = 401
  /\ Genuine(resp.req.cookie)
  /\ ~Expired(resp.req.cookie, resp.authAt)
  /\ ~UserStored(resp.req.cookie.userId)

DeleteRoutes == {"DELETE /posts/:postId", "DELETE /comments/:commentId"}
TableOf(route) == IF route = "DELETE /posts/:postId" THEN posts ELSE comments

(* the requester of the response owns the record, or has the admin flag *)
OwnerOrAdmin(record, userId) ==
  record.UserId = userId \/ isAdmin(findByPk(users, userId))

(* a row of the table is gone after the step *)
Removed(table, tableAfter, id) == Exists(table, id) /\ ~Exists(tableAfter, id)

RemovedBy(route, record) ==
  /\ resp'.route = route
  /\ resp'.status = 200
  /\ resp'.req.id = record.id
  /\ OwnerOrAdmin(record, resp'.userId)

(* C2: a DELETE of an existing Post or Comment by an authenticated requester
   who is neither its owner nor an admin is answered 403 and no record
   changes; and in every step that removes a Post or a Comment, the step is
   the answer to a DELETE of that record by its owner or by an admin. *)
C2_DeleteGuard ==
  /\ [](resp.route \in DeleteRoutes /\ resp.ran /\ Exists(TableOf(resp.route), resp.req.id)
          /\ ~OwnerOrAdmin(findByPk(TableOf(resp.route), resp.req.id), resp.userId)
        => resp.status = 403 /\ ~resp.changed)
  /\ [][/\ \A p \in posts : Removed(posts, posts', p.id)
              => RemovedBy("DELETE /posts/:postId", p)
        /\ \A c \in comments : Removed(comments, comments', c.id)
              => RemovedBy("DELETE /comments/:commentId", c)]_vars

(* a comment that is not the requester's, and the 403 that keeps it *)
C2_Witness ==
  /\ resp.route = "DELETE /comments/:commentId"
  /\ resp.status = 403
  /\ Exists(comments, resp.req.id)
  /\ findByPk(comments, resp.req.id).UserId # resp.userId

(* C3: a DELETE of an existing Post or Comment by its owner, or by an admin,
   is never refused: the request waits for its destroy, which answers 200
   and leaves no such record; a removed Post stays removed, so GET /post/:id
   answers 404 for it to every user and GET /posts does not list it. *)
C3_DeleteByOwner ==
  /\ [](/\ resp.route \in DeleteRoutes /\ resp.ran /\ resp.status # 200
             => ~(/\ Exists(TableOf(resp.route), resp.req.id)
                  /\ OwnerOrAdmin(findByPk(TableOf(resp.route), resp.req.id), resp.userId))
        /\ resp.route \in DeleteRoutes /\ resp.status = 200
             => ~Exists(TableOf(resp.route), resp.req.id)
        /\ resp.route = "GET /post/:id" /\ resp.ran /\ ~Exists(posts, resp.req.id)
             => resp.status = 404
        /\ resp.route = "GET /posts" /\ resp.ran => resp.body.rows = posts)
  /\ [][/\ \A r \in inflight : r \notin inflight'
              => /\ resp'.route = r.route /\ resp'.req = r.req /\ resp'.status = 200
                 /\ ~Exists(TableOf(r.route)', r.req.id)
        /\ \A id \in PostIds : id < nextId.post /\ ~Exists(posts, id)
              => ~Exists(posts', id)]_vars

(* the owner's DELETE of a post answered 200, then a GET of it by the owner *)
C3_Witness ==
  /\ resp.route = "GET /post/:id"
  /\ resp.status = 404
  /\ resp.req.id < nextId.post
  /\ ~Exists(posts, resp.req.id)

(* C4: GET /post/:id answers 200 with the post exactly when the post exists
   and its UserId is the requester's id; otherwise (no such post, or the post
   of another user) it answers 404 with one and the same body. *)
C4_ReadOwnPost ==
  resp.route = "GET /post/:id" /\ resp.ran =>
    LET mine == /\ Exists(posts, resp.req.id)
                /\ findByPk(posts, resp.req.id).UserId = resp.userId
    IN  /\ resp.status = 200 <=> mine
        /\ resp.status = 200 => resp.body = Data("post", {findByPk(posts, resp.req.id)})
        /\ resp.status # 200 =>
             /\ resp.status = 404
             /\ resp.body = Error("Post non trouvé ou accès interdit")

(* the post exists and is another user's: 404 *)
C4_Witness ==
  /\ resp.route = "GET /post/:id"
  /\ resp.status = 404
  /\ Exists(posts, resp.req.id)
  /\ findByPk(posts, resp.req.id).UserId # resp.userId

CreateRoutes == {"POST /post", "POST /posts/:postId/commentaire"}

(* C5: the Post made by POST /post and the Comment made by POST
   /posts/:postId/commentaire have the id of the authenticated requester as
   UserId, whatever user id the body carries; and no step changes the UserId
   of a stored Post or Comment. *)
C5_OwnerIsRequester ==
  /\ [](resp.route \in CreateRoutes /\ resp.status = 200 =>
          /\ resp.changed
          /\ \A r \in resp.body.rows :
               /\ r.UserId = resp.req.cookie.userId
               /\ r.UserId = resp.userId
               /\ r \in (IF resp.route = "POST /post" THEN posts ELSE comments))
  /\ [][/\ \A p \in posts : \A q \in posts' : q.id = p.id => q.UserId = p.UserId
        /\ \A c \in comments : \A d \in comments' : d.id = c.id => d.UserId = c.UserId
        /\ \A q \in posts' : ~Exists(posts, q.id) =>
              resp'.route = "POST /post" /\ q.UserId = resp'.userId
        /\ \A d \in comments' : ~Exists(comments, d.id) =>
              resp'.route = "POST /posts/:postId/commentaire" /\ d.UserId = resp'.userId]_vars

(* a body that names another user as the owner *)
C5_Witness ==
  /\ resp.route \in CreateRoutes
  /\ resp.status = 200
  /\ resp.req.bodyUserId # 0
  /\ resp.req.bodyUserId # resp.userId

(* C6: for a POST /login with non-empty email and password, the answer to
   an email no user has and the answer to a wrong password for a stored
   user's email have the same status and the same body. *)
C6_LoginNoLeak ==
  resp.route = "POST /login" /\ resp.status = 401
    /\ ~HasEmail(Normalize(resp.req.email)) =>
      \A e \in Emails, p \in Passwords :
        ~Missing(e) /\ p # "" /\ HasEmail(Normalize(e)) /\ LoginCheck(e, p).status # 200 =>
          /\ LoginCheck(e, p).status = resp.status
          /\ LoginCheck(e, p).body = resp.body

(* a request on a protected route that carries a token the server signed for
   a user who is stored *)
WithToken ==
  /\ resp.route \in ProtectedRoutes
  /\ resp.req.cookie \in issued
  /\ UserStored(resp.req.cookie.userId)

IssuedAtLogin ==
  resp.route = "POST /login" /\ resp.setCookie.op = "set" =>
    resp.setCookie.token.iat = resp.authAt

(* C7 as claimed: a token issued at T is accepted at every time up to T+1h
   and rejected with 401 at every time after T+1h. *)
C7_UpToOneHour ==
  WithToken =>
    /\ resp.authAt <= resp.req.cookie.iat + ExpiresIn => resp.ran
    /\ resp.authAt > resp.req.cookie.iat + ExpiresIn => resp.status = 401

(* C7, amended: a token issued at second T is accepted at every second
   before T+3600 and rejected with 401 at second T+3600 and at every later
   one. *)
C7_BeforeOneHour ==
  /\ IssuedAtLogin
  /\ WithToken =>
       /\ resp.authAt < resp.req.cookie.iat + ExpiresIn => resp.ran /\ resp.status # 401
       /\ resp.authAt >= resp.req.cookie.iat + ExpiresIn => resp.status = 401 /\ ~resp.ran

(* the request made exactly one hour after the login *)
C7_Witness ==
  /\ WithToken
  /\ resp.authAt = resp.req.cookie.iat + ExpiresIn
  /\ resp.status = 401

(* C8 as claimed: GET /logout always answers 200 and clears the cookie. *)
C8_LogoutAlways ==
  resp.route = "GET /logout" => resp.status = 200 /\ resp.setCookie = ClearToken

(* C8, amended: GET /logout is behind the authentication middleware. With the
   valid token of a stored user it answers 200 and clears the cookie; with no
   token, or one that is invalid or expired, it answers 401 and clears
   nothing. *)
C8_LogoutBehindAuth ==
  resp.route = "GET /logout" =>
    IF Unauthenticated(resp.req.cookie, resp.authAt)
    THEN resp.status = 401 /\ resp.setCookie = NoSet
    ELSE resp.status = 200 /\ resp.setCookie = ClearToken

(* a logout with no cookie at all *)
C8_Witness ==
  /\ resp.route = "GET /logout"
  /\ ~resp.req.cookie.present
  /\ resp.status = 401
  /\ resp.setCookie = NoSet

Complete(req) ==
  /\ ~Missing(req.email) /\ req.username # "" /\ req.password # ""
  /\ req.password = req.verifiedPassword

(* C9: POST /register with an email whose trimmed, lower-cased form is the
   email of a stored user answers 409 and creates no user, and no two stored
   users ever share an email: of the registrations of one email, served in
   any order, one is answered 201 and every other one 409. *)
C9_UniqueEmail ==
  /\ \A u \in users, v \in users : u.email = v.email \/ u.id = v.id => u = v
  /\ resp.route = "POST /register" =>
       /\ Complete(resp.req) => resp.status \in {201, 409}
       /\ resp.status = 201 <=> resp.changed
       /\ resp.status = 201 =>
            \E u \in users : /\ u.email = Normalize(resp.req.email)
                             /\ u.id = resp.body.id
                             /\ u.id = nextId.user - 1
       /\ resp.status = 409 =>
            \E u \in users : /\ u.email = Normalize(resp.req.email)
                             /\ u.id < nextId.user

(* the stored email written with capitals and a blank: 409 *)
C9_Witness ==
  /\ resp.route = "POST /register"
  /\ resp.status = 409
  /\ \A u \in users : u.email # resp.req.email
  /\ ~resp.changed

(* the stored user the credentials of a login are those of *)
Matching(req) ==
  {u \in users : /\ u.email = toLowerCase(trim(req.email))
                 /\ u.password.digest = <<u.password.salt, req.password>>}

(* C10: POST /login answers 200 and sets the token cookie exactly when a
   stored user has the trimmed, lower-cased email and the password matches
   that user's hash; the token carries that user's id, and a protected
   request that carries a token runs as the user of that id; users are never
   removed or renumbered, so every spelling of a registered email logs in. *)
C10_Login ==
  /\ [](/\ resp.route = "POST /login" =>
             /\ resp.status = 200 <=> Matching(resp.req) # {}
             /\ resp.status = 200 <=> resp.setCookie.op = "set"
             /\ resp.status = 200 =>
                  \E u \in Matching(resp.req) :
                     /\ resp.setCookie.token =
                          [present |-> TRUE, wellFormed |-> TRUE, key |-> Secret,
                           userId |-> u.id, iat |-> resp.authAt,
                           exp |-> resp.authAt + ExpiresIn]
                     /\ resp.setCookie.token \in issued
        /\ resp.route \in ProtectedRoutes /\ resp.ran =>
             /\ resp.req.cookie \in issued
             /\ resp.userId = resp.req.cookie.userId)
  /\ [][users \subseteq users']_vars

(* a login that succeeds with a spelling of the email that is not the stored one *)
C10_Witness ==
  /\ resp.route = "POST /login"
  /\ resp.status = 200
  /\ \A u \in users : u.email # resp.req.email
  /\ \E u \in users : u.id > 1 /\ u.id = resp.setCookie.token.userId

----------------------------------------------------------------------------
(* C11: with JWT_SECRET undefined the server fails closed: every request to a
   protected route is answered 401 by the middleware and no handler runs, no
   delete is left in flight, and no login sets the session cookie nor issues
   a token. *)
C11_FailClosed ==
  JWT_SECRET = Undefined =>
    /\ resp.route \in ProtectedRoutes => resp.status = 401 /\ ~resp.ran
    /\ resp.route = "POST /login" => resp.setCookie.op # "set"
    /\ inflight = {}
    /\ issued = {}

(* an unsigned token naming a stored user, which the library lets through when
   there is no key, is answered 401 all the same *)
C11_Witness ==
  /\ JWT_SECRET = Undefined
  /\ resp.route \in ProtectedRoutes
  /\ resp.req.cookie \in Unsigned
  /\ UserStored(resp.req.cookie.userId)
  /\ resp.status = 401

----------------------------------------------------------------------------
(* the body of a 500 response gives the text of the error that was thrown:
   error.message next to the handler's own message, or the stack *)
InternalText(body) == body.shape \in {"message+error", "stack"}

(* C12: when a persistence call of a route handler fails, the request is
   answered, the answer is 500, and its body carries no internal error
   text. *)
C12_FaultsAnswered ==
  resp.fault = "handler" =>
    /\ resp.status = 500
    /\ ~InternalText(resp.body)

----------------------------------------------------------------------------
(* C13: a DELETE of a post or comment whose record is not stored when the
   handler answers is answered 404 whoever asks, and changes nothing; so a
   DELETE answered 200 is the one that removed the record, and no second
   DELETE of the same record is answered 200, be it served after the first
   or between its lookup and its destroy. *)
C13_DeleteOnce ==
  [][(resp = NoResponse /\ resp'.route \in DeleteRoutes /\ resp'.ran) =>
       /\ ~Exists(TableOf(resp'.route), resp'.req.id)
            => resp'.status = 404 /\ UNCHANGED db
       /\ resp'.status = 200
            => IF resp'.route = "DELETE /posts/:postId"
               THEN Removed(posts, posts', resp'.req.id)
               ELSE Removed(comments, comments', resp'.req.id)]_vars

----------------------------------------------------------------------------
(* C14: every stored comment refers to a stored post and is owned by a
   stored user; and a comment creation whose body has no postId is answered
   400 and creates nothing. *)
C14_CommentsRefer ==
  /\ \A c \in comments : Exists(posts, c.PostId) /\ UserStored(c.UserId)
  /\ (resp.route = "POST /posts/:postId/commentaire" /\ resp.ran /\ resp.req.postId = 0)
       => resp.status = 400 /\ ~resp.changed

----------------------------------------------------------------------------
(* a request on a protected route whose token was presented to a logout that
   answered 200, the user of the token being stored *)
AfterLogout ==
  /\ resp.route \in ProtectedRoutes
  /\ resp.req.cookie \in history.loggedOut
  /\ UserStored(resp.req.cookie.userId)

(* C15 as claimed: a token issued at T is accepted on a protected route at
   every time up to T+1h, whether or not GET /logout was called with it in
   between. *)
C15_LogoutUpToOneHour ==
  AfterLogout =>
    (resp.authAt <= resp.req.cookie.iat + ExpiresIn => resp.ran /\ resp.status # 401)

(* C15, amended: logout revokes nothing. A token issued at second T is
   accepted on a protected route at every second before T+3600 after any
   number of logouts made with it, and no logout changes the tokens, the
   users or the secret the middleware decides on. *)
C15_LogoutKeepsToken ==
  /\ [](AfterLogout =>
          (resp.authAt < resp.req.cookie.iat + ExpiresIn => resp.ran /\ resp.status # 401))
  /\ [][resp'.route = "GET /logout" => UNCHANGED <<JWT_SECRET, issued, db>>]_vars

(* a request served after the logout of its token, at a later second *)
C15_Witness ==
  /\ AfterLogout
  /\ resp.route # "GET /logout"
  /\ resp.ran
  /\ resp.status = 200
  /\ resp.authAt > resp.req.cookie.iat

----------------------------------------------------------------------------
(* C16: a request that passes the authentication middleware is handled as
   the user to whom its token was issued at login: the stored user the
   request is attributed to has the email of the user who logged in, in
   every state, restarts included. *)
C16_SameUser ==
  (resp.route \in ProtectedRoutes /\ resp.ran) =>
    \A h \in history.issuedTo :
      h.token = resp.req.cookie =>
        UserStored(resp.userId) /\ findByPk(users, resp.userId).email = h.email

====
